---- MODULE Spec2Model ----
(***************************************************************************)
(* Model of include/linux/libc-compat.h as the C preprocessor evaluates    *)
(* it.  The state is the macro table of one translation unit: which        *)
(* environment macros are defined, and the value of every __UAPI_DEF_*     *)
(* guard.  Macro values are kept as the text the #define gives them        *)
(* ("0" or "1"); "undef" stands for a name that is not defined.            *)
(*                                                                         *)
(* Spec  : the header alone, in an arbitrary macro environment, included   *)
(*         any number of times.                                            *)
(* Proto : the coordination protocol the header's comment describes, with  *)
(*         the libc headers and the UAPI headers of every group included   *)
(*         in any order in a userspace translation unit.                   *)
(***************************************************************************)
EXTENDS Naturals, Sequences, FiniteSets

VARIABLES
    defined,    \* environment macros currently defined (markers, __KERNEL__, ...)
    guards,     \* value of each __UAPI_DEF_* macro: "undef", "0" or "1"
    redef,      \* macros that a #define hit while they were already defined
    branch,     \* branch of #ifndef __KERNEL__ taken: "none", "userspace", "fallback"
    nincl,      \* number of times libc-compat.h was included (capped)
    atFirst,    \* history: the environment macros defined at the first inclusion
    ndef,       \* protocol: how many definitions of each construct were emitted
    uapiIncl    \* protocol: UAPI headers already included (their include guards)

vars == <<defined, guards, redef, branch, nincl, atFirst, ndef, uapiIncl>>

\* Inclusions of libc-compat.h that are counted.
MaxIncl == 2

----------------------------------------------------------------------------
\* Macro names

IncludeGuard == "_LIBC_COMPAT_H"

Kernel == "__KERNEL__"

\* Include-guard macros of the libc headers the userspace branch tests.
Markers ==
    {"_NETINET_IF_ETHER_H", "_NETINET_TCP_H", "_TIME_H", "_SYS_TIME_H",
     "_NET_IF_H", "_NETINET_IN_H", "_SYS_XATTR_H"}

\* Macros the file names only in comments, or that its comments allude to;
\* no directive of the file tests them.
Untested == {"__GLIBC__", "__NETINET_IF_ETHER_H", "s6_addr32"}

EnvMacros == Markers \cup {Kernel} \cup Untested

D0(name) == <<name, "0">>

D1(name) == <<name, "1">>

----------------------------------------------------------------------------
\* The directives of the file

\* One #ifdef M ... #else ... #endif block of the userspace branch: the macro
\* tested and the #define lines of its two arms, in source order.
\* The block keyed on glibc's include guard instead of musl's.
BlockEtherGlibc ==
    [test |-> "__NETINET_IF_ETHER_H",
     then |-> <<D0("__UAPI_DEF_ETHHDR")>>,
     else |-> <<D1("__UAPI_DEF_ETHHDR")>>]

BlockEther ==
    [test |-> "_NETINET_IF_ETHER_H",
     then |-> <<D0("__UAPI_DEF_ETHHDR")>>,
     else |-> <<D1("__UAPI_DEF_ETHHDR")>>]

BlockTcp ==
    [test |-> "_NETINET_TCP_H",
     then |-> <<D0("__UAPI_DEF_TCPHDR")>>,
     else |-> <<D1("__UAPI_DEF_TCPHDR")>>]

\* The block keyed on the marker of the neighbouring block.
BlockTimeWrongMarker ==
    [test |-> "_SYS_TIME_H",
     then |-> <<D0("__UAPI_DEF_TIMESPEC"), D0("__UAPI_DEF_ITIMERSPEC")>>,
     else |-> <<D1("__UAPI_DEF_TIMESPEC"), D1("__UAPI_DEF_ITIMERSPEC")>>]

BlockTime ==
    [test |-> "_TIME_H",
     then |-> <<D0("__UAPI_DEF_TIMESPEC"), D0("__UAPI_DEF_ITIMERSPEC")>>,
     else |-> <<D1("__UAPI_DEF_TIMESPEC"), D1("__UAPI_DEF_ITIMERSPEC")>>]

BlockSysTime ==
    [test |-> "_SYS_TIME_H",
     then |-> <<D0("__UAPI_DEF_TIMEVAL"), D0("__UAPI_DEF_ITIMERVAL"),
                D0("__UAPI_DEF_TIMEZONE")>>,
     else |-> <<D1("__UAPI_DEF_TIMEVAL"), D1("__UAPI_DEF_ITIMERVAL"),
                D1("__UAPI_DEF_TIMEZONE")>>]

BlockNetIf ==
    [test |-> "_NET_IF_H",
     then |-> <<D0("__UAPI_DEF_IF_IFNAMSIZ"),
                D0("__UAPI_DEF_IF_NET_DEVICE_FLAGS_LOWER_UP_DORMANT_ECHO"),
                D0("__UAPI_DEF_IF_NET_DEVICE_FLAGS"),
                D0("__UAPI_DEF_IF_IFMAP"),
                D0("__UAPI_DEF_IF_IFREQ"),
                D0("__UAPI_DEF_IF_IFCONF")>>,
     else |-> <<D1("__UAPI_DEF_IF_IFNAMSIZ"),
                D1("__UAPI_DEF_IF_NET_DEVICE_FLAGS_LOWER_UP_DORMANT_ECHO"),
                D1("__UAPI_DEF_IF_NET_DEVICE_FLAGS"),
                D1("__UAPI_DEF_IF_IFMAP"),
                D1("__UAPI_DEF_IF_IFREQ"),
                D1("__UAPI_DEF_IF_IFCONF")>>]

\* The arm upstream glibc coordination used: IN6_ADDR_ALT left at 1 although
\* netinet/in.h was seen.
BlockNetinetInAltException ==
    [test |-> "_NETINET_IN_H",
     then |-> <<D0("__UAPI_DEF_IN_ADDR"), D0("__UAPI_DEF_IN_IPPROTO"),
                D0("__UAPI_DEF_IN_PKTINFO"), D0("__UAPI_DEF_IP_MREQ"),
                D0("__UAPI_DEF_SOCKADDR_IN"), D0("__UAPI_DEF_IN_CLASS"),
                D0("__UAPI_DEF_IN6_ADDR"), D1("__UAPI_DEF_IN6_ADDR_ALT"),
                D0("__UAPI_DEF_SOCKADDR_IN6"), D0("__UAPI_DEF_IPV6_MREQ"),
                D0("__UAPI_DEF_IPPROTO_V6"), D0("__UAPI_DEF_IPV6_OPTIONS"),
                D0("__UAPI_DEF_IN6_PKTINFO"), D0("__UAPI_DEF_IP6_MTUINFO")>>,
     else |-> <<D1("__UAPI_DEF_IN_ADDR"), D1("__UAPI_DEF_IN_IPPROTO"),
                D1("__UAPI_DEF_IN_PKTINFO"), D1("__UAPI_DEF_IP_MREQ"),
                D1("__UAPI_DEF_SOCKADDR_IN"), D1("__UAPI_DEF_IN_CLASS"),
                D1("__UAPI_DEF_IN6_ADDR"), D1("__UAPI_DEF_IN6_ADDR_ALT"),
                D1("__UAPI_DEF_SOCKADDR_IN6"), D1("__UAPI_DEF_IPV6_MREQ"),
                D1("__UAPI_DEF_IPPROTO_V6"), D1("__UAPI_DEF_IPV6_OPTIONS"),
                D1("__UAPI_DEF_IN6_PKTINFO"), D1("__UAPI_DEF_IP6_MTUINFO")>>]

BlockNetinetIn ==
    [test |-> "_NETINET_IN_H",
     then |-> <<D0("__UAPI_DEF_IN_ADDR"), D0("__UAPI_DEF_IN_IPPROTO"),
                D0("__UAPI_DEF_IN_PKTINFO"), D0("__UAPI_DEF_IP_MREQ"),
                D0("__UAPI_DEF_SOCKADDR_IN"), D0("__UAPI_DEF_IN_CLASS"),
                D0("__UAPI_DEF_IN6_ADDR"), D0("__UAPI_DEF_IN6_ADDR_ALT"),
                D0("__UAPI_DEF_SOCKADDR_IN6"), D0("__UAPI_DEF_IPV6_MREQ"),
                D0("__UAPI_DEF_IPPROTO_V6"), D0("__UAPI_DEF_IPV6_OPTIONS"),
                D0("__UAPI_DEF_IN6_PKTINFO"), D0("__UAPI_DEF_IP6_MTUINFO")>>,
     else |-> <<D1("__UAPI_DEF_IN_ADDR"), D1("__UAPI_DEF_IN_IPPROTO"),
                D1("__UAPI_DEF_IN_PKTINFO"), D1("__UAPI_DEF_IP_MREQ"),
                D1("__UAPI_DEF_SOCKADDR_IN"), D1("__UAPI_DEF_IN_CLASS"),
                D1("__UAPI_DEF_IN6_ADDR"), D1("__UAPI_DEF_IN6_ADDR_ALT"),
                D1("__UAPI_DEF_SOCKADDR_IN6"), D1("__UAPI_DEF_IPV6_MREQ"),
                D1("__UAPI_DEF_IPPROTO_V6"), D1("__UAPI_DEF_IPV6_OPTIONS"),
                D1("__UAPI_DEF_IN6_PKTINFO"), D1("__UAPI_DEF_IP6_MTUINFO")>>]

BlockXattr ==
    [test |-> "_SYS_XATTR_H",
     then |-> <<D0("__UAPI_DEF_XATTR")>>,
     else |-> <<D1("__UAPI_DEF_XATTR")>>]

\* The userspace branch (#ifndef __KERNEL__), block by block.
UserspaceBlocks ==
    <<BlockEther, BlockTcp, BlockTime, BlockSysTime, BlockNetIf,
      BlockNetinetIn, BlockXattr>>

\* The fallback branch without its xattr.h line.
FallbackDefinesNoXattr ==
    <<D1("__UAPI_DEF_IN_ADDR"), D1("__UAPI_DEF_IN_IPPROTO"),
      D1("__UAPI_DEF_IN_PKTINFO"), D1("__UAPI_DEF_IP_MREQ"),
      D1("__UAPI_DEF_SOCKADDR_IN"), D1("__UAPI_DEF_IN_CLASS"),
      D1("__UAPI_DEF_IN6_ADDR"), D1("__UAPI_DEF_IN6_ADDR_ALT"),
      D1("__UAPI_DEF_SOCKADDR_IN6"), D1("__UAPI_DEF_IPV6_MREQ"),
      D1("__UAPI_DEF_IPPROTO_V6"), D1("__UAPI_DEF_IPV6_OPTIONS"),
      D1("__UAPI_DEF_IN6_PKTINFO"), D1("__UAPI_DEF_IP6_MTUINFO"),
      D1("__UAPI_DEF_TCPHDR"), D1("__UAPI_DEF_ETHHDR"),
      D1("__UAPI_DEF_TIMESPEC"), D1("__UAPI_DEF_ITIMERSPEC"),
      D1("__UAPI_DEF_TIMEVAL"), D1("__UAPI_DEF_ITIMERVAL"),
      D1("__UAPI_DEF_TIMEZONE"),
      D1("__UAPI_DEF_IF_IFNAMSIZ"),
      D1("__UAPI_DEF_IF_NET_DEVICE_FLAGS_LOWER_UP_DORMANT_ECHO"),
      D1("__UAPI_DEF_IF_NET_DEVICE_FLAGS"),
      D1("__UAPI_DEF_IF_IFMAP"), D1("__UAPI_DEF_IF_IFREQ"),
      D1("__UAPI_DEF_IF_IFCONF")>>

\* The fallback branch (#else of #ifndef __KERNEL__): its #define lines in
\* source order.
FallbackDefines ==
    <<D1("__UAPI_DEF_IN_ADDR"), D1("__UAPI_DEF_IN_IPPROTO"),
      D1("__UAPI_DEF_IN_PKTINFO"), D1("__UAPI_DEF_IP_MREQ"),
      D1("__UAPI_DEF_SOCKADDR_IN"), D1("__UAPI_DEF_IN_CLASS"),
      D1("__UAPI_DEF_IN6_ADDR"), D1("__UAPI_DEF_IN6_ADDR_ALT"),
      D1("__UAPI_DEF_SOCKADDR_IN6"), D1("__UAPI_DEF_IPV6_MREQ"),
      D1("__UAPI_DEF_IPPROTO_V6"), D1("__UAPI_DEF_IPV6_OPTIONS"),
      D1("__UAPI_DEF_IN6_PKTINFO"), D1("__UAPI_DEF_IP6_MTUINFO"),
      D1("__UAPI_DEF_XATTR"),
      D1("__UAPI_DEF_TCPHDR"), D1("__UAPI_DEF_ETHHDR"),
      D1("__UAPI_DEF_TIMESPEC"), D1("__UAPI_DEF_ITIMERSPEC"),
      D1("__UAPI_DEF_TIMEVAL"), D1("__UAPI_DEF_ITIMERVAL"),
      D1("__UAPI_DEF_TIMEZONE"),
      D1("__UAPI_DEF_IF_IFNAMSIZ"),
      D1("__UAPI_DEF_IF_NET_DEVICE_FLAGS_LOWER_UP_DORMANT_ECHO"),
      D1("__UAPI_DEF_IF_NET_DEVICE_FLAGS"),
      D1("__UAPI_DEF_IF_IFMAP"), D1("__UAPI_DEF_IF_IFREQ"),
      D1("__UAPI_DEF_IF_IFCONF")>>

NamesOf(seq) == {seq[i][1] : i \in DOMAIN seq}

\* Every __UAPI_DEF_* name some #define line of the file mentions.
GuardNames ==
    NamesOf(BlockEther.then) \cup NamesOf(BlockEther.else)
    \cup NamesOf(BlockTcp.then) \cup NamesOf(BlockTcp.else)
    \cup NamesOf(BlockTime.then) \cup NamesOf(BlockTime.else)
    \cup NamesOf(BlockSysTime.then) \cup NamesOf(BlockSysTime.else)
    \cup NamesOf(BlockNetIf.then) \cup NamesOf(BlockNetIf.else)
    \cup NamesOf(BlockNetinetIn.then) \cup NamesOf(BlockNetinetIn.else)
    \cup NamesOf(BlockXattr.then) \cup NamesOf(BlockXattr.else)
    \cup NamesOf(FallbackDefines)

----------------------------------------------------------------------------
\* The preprocessor

\* #define name value, for each line of seq in order, on the table
\* tab = [g |-> guard values, r |-> names redefined so far].
RECURSIVE RunDefines(_, _)
RunDefines(tab, seq) ==
    IF seq = <<>> THEN tab
    ELSE LET name == Head(seq)[1]
             value == Head(seq)[2]
         IN  RunDefines([g |-> [tab.g EXCEPT ![name] = value],
                         r |-> IF tab.g[name] # "undef"
                                 THEN tab.r \cup {name} ELSE tab.r],
                        Tail(seq))

\* The arms exchanged, as step (c) of the header comment words it.
ArmInverted(defs, b) == IF b.test \in defs THEN b.else ELSE b.then

\* #ifdef b.test / #else / #endif: the arm the preprocessor keeps.
Arm(defs, b) == IF b.test \in defs THEN b.then ELSE b.else

RECURSIVE SelectedDefines(_, _)
SelectedDefines(defs, blocks) ==
    IF blocks = <<>> THEN <<>>
    ELSE Arm(defs, Head(blocks)) \o SelectedDefines(defs, Tail(blocks))

\* The file without its kernel test.
UserspaceBuildAlways(defs) == TRUE

\* A branch selection that also looks at whether any libc marker was seen.
UserspaceBuildIfLibcSeen(defs) == Kernel \notin defs /\ defs \cap Markers # {}

\* #ifndef __KERNEL__
UserspaceBuild(defs) == Kernel \notin defs

\* The #define lines the preprocessor executes between #ifndef __KERNEL__
\* and its #endif.
Body(defs) ==
    IF UserspaceBuild(defs) THEN SelectedDefines(defs, UserspaceBlocks)
    ELSE FallbackDefines

BranchTaken(defs) == IF UserspaceBuild(defs) THEN "userspace" ELSE "fallback"

\* The file without its include guard.
AlreadyIncludedNever(defs) == FALSE

\* #ifndef _LIBC_COMPAT_H
AlreadyIncluded(defs) == IncludeGuard \in defs

\* #include <linux/libc-compat.h> on the macro table st: the whole file.
Included(st) ==
    IF AlreadyIncluded(st.defined) THEN st
    ELSE LET t == RunDefines([g |-> st.guards, r |-> st.redef],
                             Body(st.defined))
         IN  [defined |-> st.defined \cup {IncludeGuard},
              guards  |-> t.g,
              redef   |-> IF IncludeGuard \in st.defined
                            THEN t.r \cup {IncludeGuard} ELSE t.r,
              branch  |-> BranchTaken(st.defined)]

Table == [defined |-> defined, guards |-> guards, redef |-> redef,
          branch |-> branch]

CountIncl(n) == IF n < MaxIncl THEN n + 1 ELSE n

----------------------------------------------------------------------------
\* The translation unit

Init ==
    /\ defined = {}
    /\ guards = [g \in GuardNames |-> "undef"]
    /\ redef = {}
    /\ branch = "none"
    /\ nincl = 0
    /\ atFirst = {}
    /\ ndef = [g \in GuardNames |-> 0]
    /\ uapiIncl = {}

\* A macro the file tests (or one it does not) becomes defined: a -D option,
\* or the include guard of a header processed at this point.
Define(m) ==
    /\ m \notin defined
    /\ defined' = defined \cup {m}
    /\ UNCHANGED <<guards, redef, branch, nincl, atFirst, ndef, uapiIncl>>

\* #include <linux/libc-compat.h>
IncludeLibcCompat ==
    /\ nincl < MaxIncl
    /\ LET s == Included(Table)
       IN  /\ defined' = s.defined
           /\ guards' = s.guards
           /\ redef' = s.redef
           /\ branch' = s.branch
    /\ nincl' = CountIncl(nincl)
    /\ atFirst' = IF nincl = 0 THEN defined ELSE atFirst
    /\ UNCHANGED <<ndef, uapiIncl>>

Next ==
    \/ \E m \in EnvMacros : Define(m)
    \/ IncludeLibcCompat

Spec == Init /\ [][Next]_vars

----------------------------------------------------------------------------
\* The coordination protocol of the header comment

\* The constructs the libc header with include guard m conflicts on: the
\* guards the file clears when it sees m.
RECURSIVE GroupIn(_, _)
GroupIn(m, blocks) ==
    IF blocks = <<>> THEN {}
    ELSE (IF Head(blocks).test = m THEN NamesOf(Head(blocks).then) ELSE {})
         \cup GroupIn(m, Tail(blocks))

GroupTable == [m \in Markers |-> GroupIn(m, UserspaceBlocks)]

GroupOf(m) == GroupTable[m]

\* #if __UAPI_DEF_FOO (an undefined macro evaluates as 0)
UapiEmits(gs, g) == gs[g] = "1"

\* #if !__UAPI_DEF_FOO
LibcEmits(gs, g) == ~UapiEmits(gs, g)

\* The libc header whose include guard is m: it defines m, and its copy of
\* each conflicting construct under #if !__UAPI_DEF_FOO.
LibcHeader(m) ==
    /\ IF m \in defined
         THEN UNCHANGED <<defined, ndef>>
         ELSE LET grp == GroupOf(m)
              IN  /\ defined' = defined \cup {m}
                  /\ ndef' = [g \in GuardNames |->
                                IF g \in grp /\ LibcEmits(guards, g)
                                  THEN ndef[g] + 1 ELSE ndef[g]]
    /\ UNCHANGED <<guards, redef, branch, nincl, atFirst, uapiIncl>>

\* The UAPI header of the group of m: it includes libc-compat.h first, then
\* defines each conflicting construct under #if __UAPI_DEF_FOO.
UapiHeader(m) ==
    /\ IF m \in uapiIncl
         THEN UNCHANGED vars
         ELSE LET s == Included(Table)
                  grp == GroupOf(m)
              IN  /\ uapiIncl' = uapiIncl \cup {m}
                  /\ defined' = s.defined
                  /\ guards' = s.guards
                  /\ redef' = s.redef
                  /\ branch' = s.branch
                  /\ nincl' = CountIncl(nincl)
                  /\ atFirst' = IF nincl = 0 THEN defined ELSE atFirst
                  /\ ndef' = [g \in GuardNames |->
                                IF g \in grp /\ UapiEmits(s.guards, g)
                                  THEN ndef[g] + 1 ELSE ndef[g]]

NextProto ==
    \/ \E m \in Markers : LibcHeader(m)
    \/ \E m \in Markers : UapiHeader(m)

Proto == Init /\ [][NextProto]_vars

----------------------------------------------------------------------------
\* Properties

\* The marker-to-group mapping as the specification states it.
ClaimGroup ==
    [m \in Markers |->
       CASE m = "_NETINET_IF_ETHER_H" -> {"__UAPI_DEF_ETHHDR"}
         [] m = "_NETINET_TCP_H" -> {"__UAPI_DEF_TCPHDR"}
         [] m = "_TIME_H" -> {"__UAPI_DEF_TIMESPEC", "__UAPI_DEF_ITIMERSPEC"}
         [] m = "_SYS_TIME_H" ->
              {"__UAPI_DEF_TIMEVAL", "__UAPI_DEF_ITIMERVAL",
               "__UAPI_DEF_TIMEZONE"}
         [] m = "_NET_IF_H" ->
              {"__UAPI_DEF_IF_IFNAMSIZ",
               "__UAPI_DEF_IF_NET_DEVICE_FLAGS_LOWER_UP_DORMANT_ECHO",
               "__UAPI_DEF_IF_NET_DEVICE_FLAGS", "__UAPI_DEF_IF_IFMAP",
               "__UAPI_DEF_IF_IFREQ", "__UAPI_DEF_IF_IFCONF"}
         [] m = "_NETINET_IN_H" ->
              {"__UAPI_DEF_IN_ADDR", "__UAPI_DEF_IN_IPPROTO",
               "__UAPI_DEF_IN_PKTINFO", "__UAPI_DEF_IP_MREQ",
               "__UAPI_DEF_SOCKADDR_IN", "__UAPI_DEF_IN_CLASS",
               "__UAPI_DEF_IN6_ADDR", "__UAPI_DEF_IN6_ADDR_ALT",
               "__UAPI_DEF_SOCKADDR_IN6", "__UAPI_DEF_IPV6_MREQ",
               "__UAPI_DEF_IPPROTO_V6", "__UAPI_DEF_IPV6_OPTIONS",
               "__UAPI_DEF_IN6_PKTINFO", "__UAPI_DEF_IP6_MTUINFO"}
         [] m = "_SYS_XATTR_H" -> {"__UAPI_DEF_XATTR"}]

\* The 28 guard names of the specification.
ClaimNames == UNION {ClaimGroup[m] : m \in Markers}

Processed == nincl >= 1

\* Right after the first inclusion, before anything else is defined.
JustProcessed == nincl = 1 /\ defined = atFirst \cup {IncludeGuard}

C2_KernelAllOne ==
    (Processed /\ Kernel \in atFirst) =>
        \A g \in ClaimNames : guards[g] = "1"

C2_Witness ==
    /\ Processed
    /\ Kernel \in atFirst
    /\ Markers \subseteq atFirst
    /\ \A g \in ClaimNames : guards[g] = "1"

\* C3: under the protocol (UAPI headers include libc-compat.h and define
\* under #if __UAPI_DEF_FOO, libc headers define their marker and define under
\* #if !__UAPI_DEF_FOO), in every inclusion order no construct is defined
\* twice, and one whose libc and UAPI headers were both included is defined
\* exactly once.
C3_SingleDefinition ==
    \A m \in Markers : \A g \in ClaimGroup[m] :
        /\ ndef[g] <= 1
        /\ (m \in defined /\ m \in uapiIncl) => ndef[g] = 1

\* libc time.h first, then the if.h UAPI header pulls in libc-compat.h, then
\* the remaining headers of three groups in some order.
C3_Witness ==
    /\ atFirst = {"_TIME_H"}
    /\ {"_TIME_H", "_SYS_TIME_H", "_NET_IF_H"} \subseteq defined
    /\ {"_TIME_H", "_SYS_TIME_H", "_NET_IF_H"} \subseteq uapiIncl
    /\ guards["__UAPI_DEF_TIMESPEC"] = "0"
    /\ guards["__UAPI_DEF_TIMEVAL"] = "1"
    /\ ndef["__UAPI_DEF_TIMESPEC"] = 1
    /\ ndef["__UAPI_DEF_TIMEVAL"] = 1
    /\ ndef["__UAPI_DEF_IF_IFREQ"] = 1

C5_AltException ==
    (/\ Processed
     /\ Kernel \notin atFirst
     /\ "_NETINET_IN_H" \in atFirst
     /\ "s6_addr32" \notin atFirst) =>
        /\ guards["__UAPI_DEF_IN6_ADDR"] = "0"
        /\ guards["__UAPI_DEF_IN6_ADDR_ALT"] = "1"

FirstGuards(defs) ==
    Included([defined |-> defs,
              guards |-> [g \in GuardNames |-> "undef"],
              redef |-> {}, branch |-> "none"]).guards

Toggle(defs, x) == IF x \in defs THEN defs \ {x} ELSE defs \cup {x}

C8_FrozenAfterFirst ==
    /\ [][Processed => (guards' = guards /\ branch' = branch)]_vars
    /\ [][(Processed /\ nincl' # nincl) =>
              (defined' = defined /\ redef' = redef)]_vars
    /\ [][nincl' # nincl =>
              defined' \ {IncludeGuard} = defined \ {IncludeGuard}]_vars
    /\ [](redef = {})

\* Included twice; _TIME_H and __KERNEL__ were defined only after the first
\* inclusion, and the guard still has its first value.
C8_Witness ==
    /\ nincl = 2
    /\ atFirst = {}
    /\ {"_TIME_H", Kernel} \subseteq defined
    /\ guards["__UAPI_DEF_TIMESPEC"] = "1"
    /\ branch = "userspace"
    /\ redef = {}

\* C9: after the first inclusion, in every configuration, exactly the 28
\* guard names are defined, each as 0 or 1; the userspace and the fallback
\* branch define the same names.
C9_Totality ==
    /\ Cardinality(ClaimNames) = 28
    /\ Processed =>
          /\ {g \in GuardNames : guards[g] # "undef"} = ClaimNames
          /\ \A g \in ClaimNames : guards[g] \in {"0", "1"}
    /\ NamesOf(FallbackDefines) = NamesOf(SelectedDefines(atFirst, UserspaceBlocks))

C9_Witness ==
    /\ Processed
    /\ branch = "fallback"
    /\ atFirst \cap Markers = {"_SYS_XATTR_H"}
    /\ {g \in GuardNames : guards[g] # "undef"} = ClaimNames

====
